---- MODULE Spec2Model ----
(***************************************************************************)
(* Letraz front-end: the onboarding wizard's forms (PersonalDetailsForm,   *)
(* EducationForm, ExperienceForm), the waitlist server action, the Discord *)
(* announcement route, the zod schemas of the resume sections and the      *)
(* useThrottle hook.                                                       *)
(*                                                                         *)
(* Every async handler is split where it awaits a remote call: one action  *)
(* for the part that runs up to the await, one for the continuation that   *)
(* runs when the call settles.  The outcome of a remote call is an input.  *)
(*                                                                         *)
(* The wizard runs in a browser tab, signUpForWaitlist and the Discord     *)
(* route on the server, a schema wherever a value is validated, and the    *)
(* hook in the component that calls it.  They                              *)
(* share no state, so a behaviour is a run of one of them: `program` says  *)
(* which, is chosen in Init and never changes.                             *)
(*                                                                         *)
(* The onboarding page that mounts the forms is not among the sources.  It *)
(* is taken to mount the form of the current step only, and to hold the    *)
(* educations / experiences lists for as long as that form is mounted.     *)
(***************************************************************************)
EXTENDS Integers, Sequences, FiniteSets, TLC

VARIABLES
    program,       \* which of the repository's programs this run is of
    step,          \* the onboarding step the router shows (?step=...)
    pdValid,       \* PersonalDetailsForm: the resolver accepts the values
    pdSubmitting,  \* PersonalDetailsForm: form.formState.isSubmitting
    edValues,      \* EducationForm: the values in the form
    edSubmitting,  \* EducationForm: form.formState.isSubmitting
    educations,    \* EducationForm's prop: the local list of educations
    exValues,      \* ExperienceForm: the values in the form
    experiences,   \* ExperienceForm's prop: the local list of experiences
    ops,           \* handlers suspended at an await, with what they closed over
    done,          \* what the handler that completed last did
    created,       \* number of education records the remote API has created
    wl,            \* signUpForWaitlist: the call in progress
    dc,            \* Discord announcement route: the invocation in progress
    schemaYear,    \* new Date().getFullYear() when the schemas were built
    parsed,        \* the last value handed to a schema, with the verdict
    th             \* useThrottle: the hook's refs, its timers and what it has done

vars == <<program, step, pdValid, pdSubmitting, edValues, edSubmitting, educations,
          exValues, experiences, ops, done, created, wl, dc, schemaYear, parsed,
          th>>

wizardVars == <<step, pdValid, pdSubmitting, edValues, edSubmitting, educations,
                exValues, experiences, ops, done, created>>

----------------------------------------------------------------------------
(* Bounds of the model *)

\* education records the remote API creates in one run
MaxCreated == 2
\* entries ExperienceForm appends in one run
MaxExperiences == 2
\* handlers of unmounted forms still waiting for their remote call
MaxStale == 1
\* useThrottle: the longest delay, in ticks of the clock
MaxDelay == 3
\* useThrottle: timers that can be pending at once
MaxTimers == 2

----------------------------------------------------------------------------
(* Onboarding steps *)

Steps == {"about", "personal-details", "education", "experience", "resume"}

\* educationFormSchema: institution_name is at most this long
MaxInstitutionName == 100

LongName == "0123456789012345678901234567890123456789012345678901234567890123456789012345678901234567890123456789x"


\* useForm's defaultValues of EducationForm
edDefaultValues ==
    [institution_name |-> "", started_from_month |-> "", finished_at_month |-> "",
     finished_at_year |-> "", current |-> FALSE]

\* what the user can have typed into EducationForm (the form has no control
\* for `current`, which keeps its default)
EdFormValues ==
    {edDefaultValues,
     [edDefaultValues EXCEPT !.institution_name = "MIT"],
     [edDefaultValues EXCEPT !.institution_name = "MIT", !.finished_at_year = "2020"],
     [edDefaultValues EXCEPT !.institution_name = LongName]}

\* the value of an optional string field that is missing from the object
undefined == "<undefined>"

\* the month names of '@/constants', which the month selects offer
months == <<"January", "February", "March", "April", "May", "June", "July",
            "August", "September", "October", "November", "December">>

\* the values a month field of a z.infer<typeof educationFormSchema> can hold:
\* missing, empty, a month name, or any other string (z.string().optional())
MonthInputs == {undefined, "", "January", "December", "Smarch"}

\* the form values insertEducation is applied to
InsertInputs ==
    [institution_name : {"MIT", LongName}, started_from_month : MonthInputs,
     finished_at_month : MonthInputs, finished_at_year : {undefined, "", "2020"},
     current : BOOLEAN]

\* JavaScript's truthiness of an optional string: undefined and '' are falsy
truthy(s) == s # undefined /\ s # ""

\* Array.prototype.findIndex with (month) => month === x: the 0-based index
\* of the first element equal to x, and -1 when there is none
findIndex(array, x) ==
    IF \E i \in DOMAIN array : array[i] = x
    THEN (CHOOSE i \in DOMAIN array :
              array[i] = x /\ \A j \in 1..(i - 1) : array[j] # x) - 1
    ELSE 0 - 1

\* useForm's defaultValues of ExperienceForm
exDefaultValues == [companyName |-> ""]

ExFormValues == [companyName : {"", "Acme", LongName}]

\* form.formState.isDirty: the values differ from the default values
isDirty(values, defaults) == values # defaults

\* zodResolver(educationFormSchema): every field optional, the name capped
educationFormSchema(values) == Len(values.institution_name) <= MaxInstitutionName

\* zodResolver(experienceFormSchema): every field optional, the name capped
experienceFormSchema(values) == Len(values.companyName) <= MaxInstitutionName


----------------------------------------------------------------------------
(* Records *)

\* no record: the value of a field that holds an entry when there is none
NoEntry == [id |-> 0 - 1, origin |-> "none", name |-> "", current |-> FALSE]

\* an education record the remote API held before the form was mounted
OldEducation == [id |-> 0, origin |-> "server", name |-> "Old", current |-> FALSE]

\* the lists the parent can hand to EducationForm when it mounts it
InitialEducations == {<<>>, <<OldEducation>>}

\* parseInt of the strings the year select offers
parseInt(s) == CASE s = "2020" -> 2020 [] OTHER -> 0

\* insertEducation with the form's own `current` field passed through
insertEducation_KeepCurrent(values) ==
    [institution_name |-> values.institution_name,
     started_from_month |-> IF truthy(values.started_from_month)
                            THEN {findIndex(months, values.started_from_month) + 1}
                            ELSE {},
     finished_at_month |-> IF truthy(values.finished_at_month)
                           THEN {findIndex(months, values.finished_at_month) + 1}
                           ELSE {},
     finished_at_year |-> IF truthy(values.finished_at_year)
                          THEN {parseInt(values.finished_at_year)} ELSE {},
     current |-> values.current]

\* insertEducation: the object handed to addEducationToDB.  A nullable field
\* is the empty set when null and a singleton otherwise.
insertEducation(values) ==
    [institution_name |-> values.institution_name,
     started_from_month |-> IF truthy(values.started_from_month)
                            THEN {findIndex(months, values.started_from_month) + 1}
                            ELSE {},
     finished_at_month |-> IF truthy(values.finished_at_month)
                           THEN {findIndex(months, values.finished_at_month) + 1}
                           ELSE {},
     finished_at_year |-> IF truthy(values.finished_at_year)
                          THEN {parseInt(values.finished_at_year)} ELSE {},
     current |-> ~truthy(values.finished_at_year)]

\* addEducationToDB, when it creates the record: the entity the API returns
addEducationToDB(payload, id) ==
    [id |-> id, origin |-> "server", name |-> payload.institution_name,
     current |-> payload.current]

\* ExperienceForm.onSubmit appends the form values themselves
experienceEntry(values) ==
    [id |-> 0 - 1, origin |-> "form", name |-> values.companyName, current |-> FALSE]

\* a handler suspended at its await
Op(form, handler, captured, values) ==
    [form |-> form, handler |-> handler, live |-> TRUE, captured |-> captured,
     values |-> values, sent |-> 1]

NoOp == [form |-> "none", handler |-> "none", live |-> FALSE, outcome |-> "none",
         toasts |-> 0, push |-> "none", sent |-> 0, entry |-> NoEntry,
         rejects |-> FALSE, dirty |-> FALSE, listed |-> FALSE]

\* what a handler did, once it has run to its end; dirty: the form was dirty
\* when the handler was started; listed: the handler put its entry in the
\* list of its (mounted) form
Done(op, outcome, eff, entry) ==
    [form |-> op.form, handler |-> op.handler, live |-> op.live, outcome |-> outcome,
     toasts |-> eff.toasts, push |-> eff.push, sent |-> op.sent, entry |-> entry,
     rejects |-> eff.rejects, dirty |-> isDirty(op.values, edDefaultValues),
     listed |-> (op.live /\ eff.set)]

Remove(s, i) == [j \in 1..(Len(s) - 1) |-> IF j < i THEN s[j] ELSE s[j + 1]]

----------------------------------------------------------------------------
(* Handlers: what each does once its awaited call has settled.  push is the *)
(* router.push target, toasts the toast.error calls, rejects whether the    *)
(* handler's own promise rejects, again whether it calls the API again.     *)

Effect(push, toasts, set, reset) ==
    [push |-> push, toasts |-> toasts, set |-> set, reset |-> reset,
     rejects |-> FALSE, again |-> FALSE]

\* onSubmit with router.push after the try/catch instead of inside the try
PersonalDetailsForm_onSubmit_PushAlways(outcome) ==
    IF outcome = "resolved"
    THEN Effect("education", 0, FALSE, FALSE)
    ELSE Effect("education", 1, FALSE, FALSE)

\* onSubmit with a catch that rethrows instead of showing the toast
PersonalDetailsForm_onSubmit_Rethrow(outcome) ==
    IF outcome = "resolved"
    THEN Effect("education", 0, FALSE, FALSE)
    ELSE [Effect("none", 0, FALSE, FALSE) EXCEPT !.rejects = TRUE]

\* onSubmit with a catch that calls addOrUpdateUserInfoToDB again
PersonalDetailsForm_onSubmit_Retry(outcome) ==
    IF outcome = "resolved"
    THEN Effect("education", 0, FALSE, FALSE)
    ELSE [Effect("none", 1, FALSE, FALSE) EXCEPT !.again = TRUE]

\* PersonalDetailsForm.onSubmit: try { await ...; router.push } catch { toast }
PersonalDetailsForm_onSubmit(outcome) ==
    IF outcome = "resolved"
    THEN Effect("education", 0, FALSE, FALSE)
    ELSE Effect("none", 1, FALSE, FALSE)

\* onSubmit without the check of the value addEducationToDB returned
EducationForm_onSubmit_NoFalsyCheck(outcome) ==
    IF outcome # "throws"
    THEN Effect("none", 0, TRUE, TRUE)
    ELSE Effect("none", 1, FALSE, FALSE)

\* EducationForm.onSubmit: a falsy result is thrown into the same catch
EducationForm_onSubmit(outcome) ==
    IF outcome = "created"
    THEN Effect("none", 0, TRUE, TRUE)
    ELSE Effect("none", 1, FALSE, FALSE)

\* EducationForm.submitWithRedirect: the result of the insert is not looked at
EducationForm_submitWithRedirect(outcome) ==
    IF outcome = "throws"
    THEN Effect("none", 1, FALSE, FALSE)
    ELSE Effect("experience", 0, FALSE, FALSE)


----------------------------------------------------------------------------
(* Routing.  The onboarding page shows the form of the current step; a form *)
(* that is not shown is unmounted and its state is gone.  A handler of an   *)
(* unmounted form still runs to its end when its call settles: its toast    *)
(* and its router.push happen, its updates of the unmounted form do not.    *)

\* the handlers of a form that unmounts: the list they closed over is of no
\* use any more, since setEducations of an unmounted parent does nothing
Stale(s) == [i \in DOMAIN s |-> [s[i] EXCEPT !.live = FALSE, !.captured = <<>>]]

\* The router shows step `to`; the arguments are the values the action gives
\* to the state of the mounted form when the step does not change.
Route(to, ops1, pdS, edS, edV, eds) ==
    /\ step' = to
    /\ IF to = step
       THEN /\ ops' = ops1
            /\ pdSubmitting' = pdS
            /\ edSubmitting' = edS
            /\ edValues' = edV
            /\ educations' = eds
            /\ UNCHANGED <<pdValid, exValues, experiences>>
       ELSE /\ ops' = Stale(ops1)
            /\ pdSubmitting' = FALSE
            /\ edSubmitting' = FALSE
            /\ edValues' = edDefaultValues
            /\ exValues' = exDefaultValues
            /\ experiences' = <<>>
            /\ pdValid' \in (IF to = "personal-details" THEN BOOLEAN ELSE {FALSE})
            /\ educations' \in (IF to = "education" THEN InitialEducations ELSE {<<>>})

\* a step of the browser tab that runs the wizard
Onboarding ==
    /\ program = "onboarding"
    /\ UNCHANGED <<program, wl, dc, schemaYear, parsed, th>>

Stay(ops1, pdS, edS, edV, eds) == Route(step, ops1, pdS, edS, edV, eds)

\* <Link href="/app/onboarding?step=...">: the previous-step button
Link(from, to) ==
    /\ Onboarding
    /\ step = from
    /\ Len(ops) <= MaxStale
    /\ Route(to, ops, pdSubmitting, edSubmitting, edValues, educations)
    /\ UNCHANGED <<done, created>>

----------------------------------------------------------------------------
(* PersonalDetailsForm *)

\* the user edits the fields; the resolver's verdict on them is the input
PD_Type(valid) ==
    /\ Onboarding
    /\ step = "personal-details"
    /\ pdValid' = valid
    /\ UNCHANGED <<step, pdSubmitting, edValues, edSubmitting, educations,
                   exValues, experiences, ops, done, created>>

\* "Looks good": form.handleSubmit(onSubmit) up to the await
PD_Submit ==
    /\ Onboarding
    /\ step = "personal-details"
    /\ ~pdSubmitting
    /\ pdValid
    /\ Stay(Append(ops, Op("pd", "onSubmit", <<>>, edDefaultValues)),
            TRUE, edSubmitting, edValues, educations)
    /\ UNCHANGED <<done, created>>

\* addOrUpdateUserInfoToDB settles and onSubmit runs to its end
PD_Settled(i, outcome) ==
    LET op == ops[i]
        eff == PersonalDetailsForm_onSubmit(outcome)
    IN  /\ Onboarding
        /\ op.form = "pd"
        /\ IF eff.again
           THEN /\ op.sent <= 2
                /\ ops' = [ops EXCEPT ![i].sent = @ + 1]
                /\ UNCHANGED <<step, pdValid, pdSubmitting, edValues, edSubmitting,
                               educations, exValues, experiences, done, created>>
           ELSE /\ done' = Done(op, outcome, eff, NoEntry)
                /\ Route(IF eff.push = "none" THEN step ELSE eff.push, Remove(ops, i),
                         IF op.live THEN FALSE ELSE pdSubmitting,
                         edSubmitting, edValues, educations)
                /\ UNCHANGED created

PD_Previous == Link("personal-details", "about")

----------------------------------------------------------------------------
(* EducationForm *)

Ed_Type(values) ==
    /\ Onboarding
    /\ step = "education"
    /\ edValues' = values
    /\ UNCHANGED <<step, pdValid, pdSubmitting, edSubmitting, educations,
                   exValues, experiences, ops, done, created>>

\* "Add another" with the list extended by the form values before the await
Ed_AddAnother_Optimistic ==
    /\ Onboarding
    /\ step = "education"
    /\ ~edSubmitting
    /\ isDirty(edValues, edDefaultValues)
    /\ educationFormSchema(edValues)
    /\ Stay(Append(ops, Op("ed", "onSubmit", educations, edValues)),
            pdSubmitting, TRUE, edValues,
            Append(educations, [NoEntry EXCEPT !.origin = "form",
                                               !.name = edValues.institution_name]))
    /\ UNCHANGED <<done, created>>

\* "Add another" with the button enabled while a submission is in progress
Ed_AddAnother_NoSubmittingGuard ==
    /\ Onboarding
    /\ step = "education"
    /\ Len(ops) <= MaxStale
    /\ isDirty(edValues, edDefaultValues)
    /\ educationFormSchema(edValues)
    /\ Stay(Append(ops, Op("ed", "onSubmit", educations, edValues)),
            pdSubmitting, TRUE, edValues, educations)
    /\ UNCHANGED <<done, created>>

\* "Add another": form.handleSubmit(onSubmit) up to the await in insertEducation
Ed_AddAnother ==
    /\ Onboarding
    /\ step = "education"
    /\ ~edSubmitting
    /\ isDirty(edValues, edDefaultValues)
    /\ educationFormSchema(edValues)
    /\ Stay(Append(ops, Op("ed", "onSubmit", educations, edValues)),
            pdSubmitting, TRUE, edValues, educations)
    /\ UNCHANGED <<done, created>>

\* "What's next" with the insert awaited whether the form is dirty or not
Ed_WhatsNext_AlwaysInsert ==
    /\ Onboarding
    /\ step = "education"
    /\ ~edSubmitting
    /\ educationFormSchema(edValues)
    /\ Stay(Append(ops, Op("ed", "submitWithRedirect", educations, edValues)),
            pdSubmitting, TRUE, edValues, educations)
    /\ UNCHANGED <<done, created>>

\* "What's next": form.handleSubmit(submitWithRedirect); a pristine form is
\* redirected at once, a dirty one waits for insertEducation
Ed_WhatsNext ==
    /\ Onboarding
    /\ step = "education"
    /\ ~edSubmitting
    /\ educationFormSchema(edValues)
    /\ IF isDirty(edValues, edDefaultValues)
       THEN /\ Stay(Append(ops, Op("ed", "submitWithRedirect", educations, edValues)),
                    pdSubmitting, TRUE, edValues, educations)
            /\ UNCHANGED <<done, created>>
       ELSE LET op == [Op("ed", "submitWithRedirect", educations, edValues)
                          EXCEPT !.sent = 0]
                eff == EducationForm_submitWithRedirect("pristine")
            IN  /\ done' = Done(op, "pristine", eff, NoEntry)
                /\ Route(IF eff.push = "none" THEN step ELSE eff.push, ops,
                         pdSubmitting, edSubmitting, edValues, educations)
                /\ UNCHANGED created

\* addEducationToDB settles and the handler that awaited it runs to its end
Ed_Settled(i, outcome) ==
    LET op == ops[i]
        entry == IF outcome = "created"
                 THEN addEducationToDB(insertEducation(op.values), created + 1)
                 ELSE NoEntry
        eff == IF op.handler = "onSubmit"
               THEN EducationForm_onSubmit(outcome)
               ELSE EducationForm_submitWithRedirect(outcome)
    IN  /\ Onboarding
        /\ op.form = "ed"
        /\ outcome = "created" => created < MaxCreated
        /\ IF eff.again
           THEN /\ op.sent <= 2
                /\ ops' = [ops EXCEPT ![i].sent = @ + 1]
                /\ UNCHANGED <<step, pdValid, pdSubmitting, edValues, edSubmitting,
                               educations, exValues, experiences, done, created>>
           ELSE /\ done' = Done(op, outcome, eff, entry)
                /\ created' = IF outcome = "created" THEN created + 1 ELSE created
                /\ Route(IF eff.push = "none" THEN step ELSE eff.push, Remove(ops, i),
                         pdSubmitting,
                         IF op.live THEN FALSE ELSE edSubmitting,
                         IF op.live /\ eff.reset THEN edDefaultValues ELSE edValues,
                         IF op.live /\ eff.set THEN Append(op.captured, entry)
                                                ELSE educations)

Ed_Previous == Link("education", "personal-details")

----------------------------------------------------------------------------
(* ExperienceForm *)

Ex_Type(values) ==
    /\ Onboarding
    /\ step = "experience"
    /\ exValues' = values
    /\ UNCHANGED <<step, pdValid, pdSubmitting, edValues, edSubmitting, educations,
                   experiences, ops, done, created>>

\* "Add another": onSubmit is synchronous and calls no API
Ex_AddAnother ==
    /\ Onboarding
    /\ step = "experience"
    /\ isDirty(exValues, exDefaultValues)
    /\ experienceFormSchema(exValues)
    /\ Len(experiences) < MaxExperiences
    /\ experiences' = Append(experiences, experienceEntry(exValues))
    /\ exValues' = exDefaultValues
    /\ done' = [NoOp EXCEPT !.form = "ex", !.handler = "onSubmit", !.live = TRUE,
                            !.outcome = "appended", !.entry = experienceEntry(exValues),
                            !.dirty = TRUE, !.listed = TRUE]
    /\ UNCHANGED <<step, pdValid, pdSubmitting, edValues, edSubmitting, educations,
                   ops, created>>

\* "Create my base resume": submitWithRedirect ignores the values
Ex_Create ==
    /\ Onboarding
    /\ step = "experience"
    /\ experienceFormSchema(exValues)
    /\ done' = [NoOp EXCEPT !.form = "ex", !.handler = "submitWithRedirect",
                            !.live = TRUE, !.outcome = "redirected", !.push = "resume",
                            !.dirty = isDirty(exValues, exDefaultValues)]
    /\ Route("resume", ops, pdSubmitting, edSubmitting, edValues, educations)
    /\ UNCHANGED created

Ex_Previous == Link("experience", "education")

----------------------------------------------------------------------------

WizardInit ==
    /\ step = "personal-details"
    /\ pdValid \in BOOLEAN
    /\ pdSubmitting = FALSE
    /\ edValues = edDefaultValues
    /\ edSubmitting = FALSE
    /\ educations = <<>>
    /\ exValues = exDefaultValues
    /\ experiences = <<>>
    /\ ops = <<>>
    /\ done = NoOp
    /\ created = 0

----------------------------------------------------------------------------
(* signUpForWaitlist (server action) *)

\* the addresses WaitlistMutationSchema accepts, among those tried
ValidEmails == {"ada@letraz.app", "bob@letraz.app"}

Emails == ValidEmails \cup {"not-an-address"}

\* WaitlistMutationSchema.parse({email, referrer}) does not throw
WaitlistMutationSchema_parse(email) == email \in ValidEmails

WlIdle == [pc |-> "idle", email |-> "", posts |-> 0, mails |-> 0, mailTo |-> "",
           status |-> "none", result |-> "none"]

\* a step of the server that runs the action
Waitlist ==
    /\ program = "waitlist"
    /\ UNCHANGED <<program, step, pdValid, pdSubmitting, edValues, edSubmitting,
                   educations, exValues, experiences, ops, done, created,
                   dc, schemaYear, parsed, th>>

\* signUpForWaitlist with the welcome email sent whatever the status is
signUpForWaitlist_onResponse_MailAlways(status, body) ==
    CASE status = "throws" -> [pc |-> "rejected", result |-> "none"]
      [] OTHER -> [pc |-> "mail", result |-> "none"]

\* what signUpForWaitlist does with the response of the POST: a response that
\* is not ok is logged and the parsed params are returned, unless reading
\* data.error.details throws; an ok response goes on to the welcome email
signUpForWaitlist_onResponse(status, body) ==
    CASE status = "throws" -> [pc |-> "rejected", result |-> "none"]
      [] status = "notok" /\ body = "error-details" -> [pc |-> "returned", result |-> "params"]
      [] status = "notok" -> [pc |-> "rejected", result |-> "none"]
      [] OTHER -> [pc |-> "mail", result |-> "none"]

\* the call, up to the await of fetch: parse throws on a bad address
WL_Call(email) ==
    /\ Waitlist
    /\ wl.pc \in {"idle", "returned", "rejected"}
    /\ wl' = IF WaitlistMutationSchema_parse(email)
             THEN [WlIdle EXCEPT !.pc = "fetch", !.email = email, !.posts = 1]
             ELSE [WlIdle EXCEPT !.pc = "rejected", !.email = email]

\* fetch settles: it throws, or answers with a status and a body
WL_Fetched(status, body) ==
    LET next == signUpForWaitlist_onResponse(status, body)
    IN  /\ Waitlist
        /\ wl.pc = "fetch"
        /\ wl' = [wl EXCEPT !.pc = next.pc, !.result = next.result, !.status = status,
                            !.mails = IF next.pc = "mail" THEN 1 ELSE 0,
                            !.mailTo = IF next.pc = "mail" THEN wl.email ELSE ""]

\* resend.emails.send settles, then the body of the ok response is parsed
WL_Mailed(outcome, body) ==
    /\ Waitlist
    /\ wl.pc = "mail"
    /\ wl' = IF outcome = "sent" /\ body = "entry"
             THEN [wl EXCEPT !.pc = "returned", !.result = "entry"]
             ELSE [wl EXCEPT !.pc = "rejected"]

----------------------------------------------------------------------------
(* Discord announcement route: POST *)

DcIdle == [pc |-> "idle", postsReq |-> 0, hookReq |-> 0, message |-> "none",
           throws |-> FALSE, posts |-> "none", hook |-> "none"]

\* a step of the server that runs the route
Announcement ==
    /\ program = "announcement"
    /\ UNCHANGED <<program, step, pdValid, pdSubmitting, edValues, edSubmitting,
                   educations, exValues, experiences, ops, done, created,
                   wl, schemaYear, parsed, th>>

\* the handler, up to the await of getPosts
DC_POST ==
    /\ Announcement
    /\ dc.pc \in {"idle", "responded"}
    /\ dc' = [DcIdle EXCEPT !.pc = "posts", !.postsReq = 1]

\* getPosts settles, with the webhook request sent although there is no post
DC_Posts_AnnounceNothing(outcome) ==
    /\ Announcement
    /\ dc.pc = "posts"
    /\ dc' = IF outcome \in {"post", "empty"}
             THEN [dc EXCEPT !.pc = "hook", !.hookReq = 1, !.posts = outcome]
             ELSE [dc EXCEPT !.pc = "responded", !.message = "Failed",
                             !.posts = outcome]

\* getPosts settles.  With no post, post.feature_image throws before fetch
\* is called; turndown throws on a post whose html is not a string.
DC_Posts(outcome) ==
    /\ Announcement
    /\ dc.pc = "posts"
    /\ dc' = IF outcome = "post"
             THEN [dc EXCEPT !.pc = "hook", !.hookReq = 1, !.posts = outcome]
             ELSE [dc EXCEPT !.pc = "responded", !.message = "Failed",
                             !.posts = outcome]

\* the webhook request settles; its status is not looked at
DC_Hook(outcome) ==
    /\ Announcement
    /\ dc.pc = "hook"
    /\ dc' = [dc EXCEPT !.pc = "responded", !.hook = outcome,
                        !.message = IF outcome = "throws" THEN "Failed" ELSE "Success"]

----------------------------------------------------------------------------
(* The zod schemas.  A JavaScript value is a record: t is its kind, and a   *)
(* finite number carries h, twice its value, so that 1.5 is h = 3 and a     *)
(* number is an integer exactly when h is even.                             *)

MinMonth == 1
MaxMonth == 12
MinYear == 1947

\* the years new Date().getFullYear() can have returned when the module loaded
LoadYears == {2025, 2026}

Undefined == [t |-> "undefined", h |-> 0]
Null == [t |-> "null", h |-> 0]
Num(h) == [t |-> "number", h |-> h]

Halves(lo, hi) == {Num(h) : h \in (2 * lo)..(2 * hi)}

\* the values handed to a date field of ExperienceSchema
FieldInputs ==
    {Undefined, Null, [t |-> "NaN", h |-> 0], [t |-> "Infinity", h |-> 0],
     [t |-> "-Infinity", h |-> 0], [t |-> "string", h |-> 0], [t |-> "boolean", h |-> 0]}
    \cup Halves(0 - 1, 14) \cup Halves(1945, 1948) \cup Halves(2024, 2028)

DateFields == {"started_from_month", "started_from_year",
               "finished_at_month", "finished_at_year"}

\* z.number(): typeof v === "number" and not NaN
z_number(v) == v.t \in {"number", "Infinity", "-Infinity"}

\* .int(): Number.isInteger(v)
z_int(v) == v.t = "number" /\ v.h % 2 = 0

\* .min(m): v >= m
z_min(v, m) == v.t = "Infinity" \/ (v.t = "number" /\ v.h >= 2 * m)

\* .max(m): v <= m
z_max(v, m) == v.t = "-Infinity" \/ (v.t = "number" /\ v.h <= 2 * m)

\* the field's schema without .int()
z_optionalInt_NoInt(v, lo, hi) ==
    \/ v.t = "undefined"
    \/ v.t = "null"
    \/ z_number(v) /\ z_min(v, lo) /\ z_max(v, hi)

\* z.number().int().min(lo).max(hi).nullable().optional()
z_optionalInt(v, lo, hi) ==
    \/ v.t = "undefined"
    \/ v.t = "null"
    \/ z_number(v) /\ z_int(v) /\ z_min(v, lo) /\ z_max(v, hi)

\* ExperienceSchema's verdict on one of its date fields; year is what
\* new Date().getFullYear() returned when the schema was built
ExperienceSchema_field(field, v, year) ==
    IF field \in {"started_from_month", "finished_at_month"}
    THEN z_optionalInt(v, MinMonth, MaxMonth)
    ELSE z_optionalInt(v, MinYear, year)

\* A record handed to a schema as a section's data: the required keys it has
\* with values of the right type ("base" stands for id, user, resume_section,
\* country, current, created_at, updated_at), and one date field.
DataInputs == [has : SUBSET {"base", "company_name", "institution_name"},
               started_from_month : {Undefined, Num(10), Num(26)}]

\* ExperienceSchema: z.object, so unknown keys are stripped, not rejected
ExperienceSchema(data) ==
    /\ {"base", "company_name"} \subseteq data.has
    /\ ExperienceSchema_field("started_from_month", data.started_from_month, schemaYear)

\* EducationSchema of lib/education/types: the education record of the API
EducationSchema(data) ==
    /\ {"base", "institution_name"} \subseteq data.has
    /\ z_optionalInt(data.started_from_month, MinMonth, MaxMonth)

SectionInputs == [base : BOOLEAN, type : {"Education", "Experience", "Skill"},
                  data : DataInputs]

\* ResumeSectionSchema: type is an enum and data a union, each on its own
ResumeSectionSchema(section) ==
    /\ section.base
    /\ section.type \in {"Education", "Experience"}
    /\ EducationSchema(section.data) \/ ExperienceSchema(section.data)

NotParsed == [schema |-> "none", field |-> "", value |-> Undefined,
              section |-> [base |-> FALSE, type |-> "",
                           data |-> [has |-> {}, started_from_month |-> Undefined]],
              ok |-> FALSE, values |-> edDefaultValues,
              payload |-> insertEducation(edDefaultValues)]

\* a step of a program that validates a value
Schemas ==
    /\ program = "schemas"
    /\ UNCHANGED <<program, step, pdValid, pdSubmitting, edValues, edSubmitting,
                   educations, exValues, experiences, ops, done, created,
                   wl, dc, schemaYear, th>>

\* ExperienceSchema parses a record whose date field `field` is v
Parse_ExperienceField(field, v) ==
    /\ Schemas
    /\ parsed' = [NotParsed EXCEPT !.schema = "ExperienceSchema", !.field = field,
                                   !.value = v,
                                   !.ok = ExperienceSchema_field(field, v, schemaYear)]

\* ResumeSectionSchema parses a section
Parse_ResumeSection(section) ==
    /\ Schemas
    /\ parsed' = [NotParsed EXCEPT !.schema = "ResumeSectionSchema", !.section = section,
                                   !.ok = ResumeSectionSchema(section)]

----------------------------------------------------------------------------
(* useThrottle.  Time is counted in ticks since lastRan.current was set and  *)
(* stops counting at `delay`, the only value it is compared with.  A timer   *)
(* whose time has come is run by the event loop at some later point: calls   *)
(* of the throttled function and other timers can come first.                *)

\* the arguments of a call of the throttled function
Args == {"a", "b"}

NoArgs == "none"

\* handles of setTimeout; 0 stands for timeoutRef.current = null
Handles == 1..MaxTimers

ThIdle == [delay |-> 1, elapsed |-> 0, timers |-> {}, timeoutRef |-> 0,
           lastCall |-> NoArgs, lastInvoked |-> NoArgs, owed |-> FALSE,
           invoked |-> FALSE, gap |-> 0]

\* useThrottle(callback, delay) when the component mounts: lastRan = Date.now()
useThrottle(delay) == [ThIdle EXCEPT !.delay = delay]

\* callback(...args); lastRan.current = Date.now().  gap is the time since
\* lastRan was set before (by the previous invocation, or by the mount)
callback(t, args) ==
    [t EXCEPT !.lastInvoked = args, !.invoked = TRUE, !.gap = t.elapsed,
              !.owed = FALSE, !.elapsed = 0]

clearTimeout(timers, h) == {tm \in timers : tm.h # h}

\* setTimeout: a timer with a handle no pending timer has
setTimeout(timers, ms, args) ==
    LET h == CHOOSE k \in 1..(Cardinality(timers) + 1) :
                 /\ \A tm \in timers : tm.h # k
                 /\ \A j \in 1..(k - 1) : \E tm \in timers : tm.h = j
    IN  [h |-> h, remaining |-> ms, args |-> args]

\* handler() without the clearTimeout of the timer scheduled before
useThrottle_handler_NoClear(t, args) ==
    LET c == [t EXCEPT !.lastCall = args, !.owed = TRUE]
    IN  IF c.elapsed >= c.delay
        THEN callback(c, args)
        ELSE LET tm == setTimeout(c.timers, c.delay - c.elapsed, args)
             IN  [c EXCEPT !.timers = c.timers \cup {tm}, !.timeoutRef = tm.h]

\* handler() of the throttled function, called with args
useThrottle_handler(t, args) ==
    LET c == [t EXCEPT !.lastCall = args, !.owed = TRUE]
    IN  IF c.elapsed >= c.delay
        THEN callback(c, args)
        ELSE LET kept == IF c.timeoutRef # 0
                         THEN clearTimeout(c.timers, c.timeoutRef)
                         ELSE c.timers
                 tm == setTimeout(kept, c.delay - c.elapsed, args)
             IN  [c EXCEPT !.timers = kept \cup {tm}, !.timeoutRef = tm.h]

\* a step of the component that uses the hook
Throttle ==
    /\ program = "throttle"
    /\ UNCHANGED <<program, step, pdValid, pdSubmitting, edValues, edSubmitting,
                   educations, exValues, experiences, ops, done, created,
                   wl, dc, schemaYear, parsed>>

\* the throttled function is called
Th_Call(args) ==
    /\ Throttle
    /\ Cardinality(th.timers) < MaxTimers
    /\ th' = useThrottle_handler(th, args)

\* the event loop runs the callback of a timer whose time has come
Th_Timeout(h) ==
    /\ Throttle
    /\ \E tm \in th.timers :
           /\ tm.h = h
           /\ tm.remaining = 0
           /\ th' = callback([th EXCEPT !.timers = @ \ {tm}], tm.args)

\* the clock advances by one tick
Th_Tick ==
    /\ Throttle
    /\ th.elapsed < th.delay \/ \E tm \in th.timers : tm.remaining > 0
    /\ th' = [th EXCEPT !.elapsed = IF @ < th.delay THEN @ + 1 ELSE @,
                        !.timers = {[tm EXCEPT !.remaining = IF @ > 0 THEN @ - 1 ELSE 0] :
                                        tm \in @}]

----------------------------------------------------------------------------

\* insertEducation builds the object for addEducationToDB from form values
\* that zodResolver(educationFormSchema) accepted
Insert_Education(values) ==
    /\ Schemas
    /\ educationFormSchema(values)
    /\ parsed' = [NotParsed EXCEPT !.schema = "insertEducation", !.values = values,
                                   !.payload = insertEducation(values), !.ok = TRUE]

Init ==
    /\ program \in {"onboarding", "waitlist", "announcement", "schemas", "throttle"}
    /\ WizardInit
    /\ wl = WlIdle
    /\ dc = DcIdle
    /\ schemaYear \in (IF program = "schemas" THEN LoadYears ELSE {2026})
    /\ parsed = NotParsed
    /\ th \in (IF program = "throttle" THEN {useThrottle(delay) : delay \in 1..MaxDelay}
                                        ELSE {ThIdle})

Next ==
    \/ \E args \in Args : Th_Call(args)
    \/ \E h \in Handles : Th_Timeout(h)
    \/ Th_Tick
    \/ \E values \in InsertInputs : Insert_Education(values)
    \/ \E valid \in BOOLEAN : PD_Type(valid)
    \/ PD_Submit
    \/ \E i \in DOMAIN ops, outcome \in {"resolved", "rejected"} : PD_Settled(i, outcome)
    \/ PD_Previous
    \/ \E values \in EdFormValues : Ed_Type(values)
    \/ Ed_AddAnother
    \/ Ed_WhatsNext
    \/ \E i \in DOMAIN ops, outcome \in {"created", "falsy", "throws"} : Ed_Settled(i, outcome)
    \/ Ed_Previous
    \/ \E values \in ExFormValues : Ex_Type(values)
    \/ Ex_AddAnother
    \/ Ex_Create
    \/ Ex_Previous
    \/ \E email \in Emails : WL_Call(email)
    \/ \E status \in {"throws", "ok", "notok"},
          body \in {"error-details", "no-error-field", "not-json"} : WL_Fetched(status, body)
    \/ \E outcome \in {"sent", "throws"},
          body \in {"entry", "not-an-entry", "not-json"} : WL_Mailed(outcome, body)
    \/ DC_POST
    \/ \E outcome \in {"throws", "empty", "post", "post-without-html"} : DC_Posts(outcome)
    \/ \E outcome \in {"throws", "ok", "notok"} : DC_Hook(outcome)
    \/ \E field \in DateFields, v \in FieldInputs : Parse_ExperienceField(field, v)
    \/ \E section \in SectionInputs : Parse_ResumeSection(section)

Spec == Init /\ [][Next]_vars

\* the event loop runs a timer whose time has come, and time goes on
SpecLive ==
    /\ Init
    /\ [][Next]_vars
    /\ WF_vars(\E h \in Handles : Th_Timeout(h))
    /\ WF_vars(Th_Tick)

----------------------------------------------------------------------------
(* The claims *)

\* the step just taken ran a handler of `form` to its end
Settled(form, handler) ==
    /\ Len(ops') < Len(ops)
    /\ done'.form = form
    /\ done'.handler = handler

\* v is an integer n with lo <= n <= hi
IsIntegerIn(v, lo, hi) == v.t = "number" /\ \E n \in lo..hi : v.h = n + n

\* C1: when addOrUpdateUserInfoToDB resolves for a submission of
\* PersonalDetailsForm, the handler pushes step 'education' and the router
\* shows it; a submission whose call did not resolve pushes nothing.
C1_ResolvedIffEducation ==
    [][Settled("pd", "onSubmit") =>
         IF done'.outcome = "resolved"
         THEN done'.push = "education" /\ step' = "education"
         ELSE done'.push = "none" /\ step' = step]_vars

C1_Witness ==
    /\ done.form = "pd"
    /\ done.outcome = "resolved"
    /\ done.push = "education"
    /\ step = "education"

\* C2: when addOrUpdateUserInfoToDB rejects, the handler shows exactly one
\* error toast, pushes no step (a mounted form stays on personal-details)
\* and its own promise does not reject.
C2_RejectedToastsOnce ==
    [][(Settled("pd", "onSubmit") /\ done'.outcome = "rejected") =>
         /\ done'.toasts = 1
         /\ done'.push = "none"
         /\ step' = step
         /\ done'.live => step' = "personal-details"
         /\ ~done'.rejects]_vars

C2_Witness ==
    /\ done.form = "pd"
    /\ done.outcome = "rejected"
    /\ done.live
    /\ done.toasts = 1
    /\ step = "personal-details"

\* C3 (as claimed): "What's next" pushes 'experience' only when the form was
\* pristine or the insert returned a created entry, and an insert that fails
\* (throws or returns nothing) shows a toast and pushes nothing.
C3_RedirectOnlyAfterCreated ==
    (done.form = "ed" /\ done.handler = "submitWithRedirect") =>
        /\ done.push = "experience" => done.outcome \in {"pristine", "created"}
        /\ done.outcome \in {"falsy", "throws"} => done.toasts = 1 /\ done.push = "none"

\* C4: ExperienceSchema accepts a month exactly when it is null, absent or an
\* integer in [1,12], and a year exactly when it is null, absent or an integer
\* in [1947, the year the schema took from the clock]; 0, 13, 1946 and that
\* year + 1 are rejected, 1, 12, 1947 and that year accepted.
C4_DateFieldBounds ==
    parsed.schema = "ExperienceSchema" =>
        LET v == parsed.value
            month == parsed.field \in {"started_from_month", "finished_at_month"}
        IN  /\ parsed.ok <=>
                   \/ v.t \in {"null", "undefined"}
                   \/ month /\ IsIntegerIn(v, 1, 12)
                   \/ ~month /\ IsIntegerIn(v, 1947, schemaYear)
            /\ (month /\ v \in {Num(0), Num(26)}) => ~parsed.ok
            /\ (month /\ v \in {Num(2), Num(24)}) => parsed.ok
            /\ (~month /\ v \in {Num(2 * 1946), Num(2 * (schemaYear + 1))}) => ~parsed.ok
            /\ (~month /\ v \in {Num(2 * 1947), Num(2 * schemaYear)}) => parsed.ok

C4_Witness ==
    /\ parsed.schema = "ExperienceSchema"
    /\ parsed.field = "finished_at_year"
    /\ parsed.value = Num(2 * schemaYear)
    /\ parsed.ok

\* C5 (as claimed): when the POST to the waitlist endpoint answers with a
\* status that is not a success, signUpForWaitlist rejects.
C5_FailedRequestRejects ==
    wl.status = "notok" => wl.pc = "rejected"

\* C6 (as claimed): while the create call of "Add another" is in flight, the
\* local list already holds the new entry.
C6_OptimisticAdd ==
    \A i \in DOMAIN ops :
        (ops[i].live /\ ops[i].form = "ed" /\ ops[i].handler = "onSubmit") =>
            Len(educations) = Len(ops[i].captured) + 1

\* C6 (amended): the list is not touched while addEducationToDB is in flight:
\* it still is the list the handler was started with, and once the handler has
\* run, every entry of the list is a record a completed call has returned.
C6_AddWaitsForTheCall ==
    /\ \A i \in DOMAIN ops :
           (ops[i].live /\ ops[i].form = "ed" /\ ops[i].handler = "onSubmit") =>
               educations = ops[i].captured
    /\ \A k \in DOMAIN educations :
           educations[k].origin = "server" /\ educations[k].id \in 0..created

C6_Witness ==
    \E i \in DOMAIN ops :
        /\ ops[i].live /\ ops[i].form = "ed" /\ ops[i].handler = "onSubmit"
        /\ Len(educations) >= 1
        /\ created >= 1

\* C7 (as claimed): a section ResumeSectionSchema accepts has type Education
\* with an education record as data, or type Experience with an experience
\* record as data.
C7_SectionTypedConsistently ==
    (parsed.schema = "ResumeSectionSchema" /\ parsed.ok) =>
        /\ parsed.section.type \in {"Education", "Experience"}
        /\ parsed.section.type = "Education" => EducationSchema(parsed.section.data)
        /\ parsed.section.type = "Experience" => ExperienceSchema(parsed.section.data)

\* C8: no handler sends a request twice: every handler waiting for its call,
\* and the one that ran last, has sent one request at most to each endpoint.
C8_NoRetry ==
    /\ \A i \in DOMAIN ops : ops[i].sent <= 1
    /\ done.sent <= 1
    /\ wl.posts <= 1 /\ wl.mails <= 1
    /\ dc.postsReq <= 1 /\ dc.hookReq <= 1
    /\ Cardinality({i \in DOMAIN ops : ops[i].live}) <= 1

C8_Witness ==
    /\ done.form = "pd"
    /\ done.outcome = "rejected"
    /\ done.sent = 1
    /\ ops = <<>>

\* C9 (as claimed): every entry of the local educations list and of the local
\* experiences list is a record the remote API created and returned.
C9_ListsHoldServerRecords ==
    /\ \A k \in DOMAIN educations : educations[k].origin = "server"
    /\ \A k \in DOMAIN experiences : experiences[k].origin = "server"

\* C10: when "Add another" of a mounted EducationForm has run: if
\* addEducationToDB returned a created entry, the list is the list before
\* followed by that entry and the form is reset; if it threw or returned
\* nothing, the list and the form's values are as before, one error toast is
\* shown and no step is pushed.
C10_AddAnotherFrame ==
    [][(Settled("ed", "onSubmit") /\ done'.live) =>
         IF done'.outcome = "created"
         THEN /\ educations' = Append(educations, done'.entry)
              /\ done'.entry.origin = "server"
              /\ done'.entry.id = created'
              /\ edValues' = edDefaultValues
              /\ done'.toasts = 0
         ELSE /\ educations' = educations
              /\ edValues' = edValues
              /\ done'.toasts = 1
              /\ done'.push = "none"
              /\ step' = step]_vars

C10_Witness ==
    /\ done.form = "ed" /\ done.handler = "onSubmit" /\ done.live
    /\ done.outcome = "created"
    /\ step = "education"
    /\ Len(educations) >= 2
    /\ educations[Len(educations)] = done.entry
    /\ edValues = edDefaultValues

\* C11: "What's next" sends an insert exactly when the form is dirty: a handler
\* waiting for its insert was started on a dirty form, has sent one request
\* and (while its form is mounted) has not left the education step; a handler
\* that ran on a pristine form sent nothing, created nothing and pushed
\* 'experience'; one that ran on a dirty form sent exactly one insert.
C11_InsertIffDirty ==
    /\ \A i \in DOMAIN ops :
           (ops[i].form = "ed" /\ ops[i].handler = "submitWithRedirect") =>
               /\ isDirty(ops[i].values, edDefaultValues)
               /\ ops[i].sent = 1
               /\ ops[i].live => step = "education"
    /\ (done.form = "ed" /\ done.handler = "submitWithRedirect") =>
           /\ done.dirty <=> done.sent = 1
           /\ ~done.dirty <=> done.sent = 0
           /\ ~done.dirty <=> done.outcome = "pristine"
           /\ ~done.dirty => (done.push = "experience" /\ done.entry = NoEntry)

C11_Witness ==
    /\ done.form = "ed" /\ done.handler = "submitWithRedirect"
    /\ done.dirty /\ done.sent = 1 /\ done.outcome = "created"
    /\ step = "experience"

\* C12: the local educations list is the initial list followed by the entries
\* this form created on the server, none missing: every entry a handler of
\* the mounted EducationForm got created was put in the list by that handler.
C12_NoCreatedEntryMissing ==
    (done.form = "ed" /\ done.live /\ done.outcome = "created") =>
        done.listed

\* C13: for every form value educationFormSchema accepts, each month that
\* insertEducation sends is null or an integer in [1,12], and an empty or
\* missing month is sent as null.
C13_MonthsSentInRange ==
    parsed.schema = "insertEducation" =>
        \A f \in {"started_from_month", "finished_at_month"} :
            /\ parsed.payload[f] = {} \/ \E n \in MinMonth..MaxMonth : parsed.payload[f] = {n}
            /\ parsed.values[f] \in {"", undefined} => parsed.payload[f] = {}

\* C14 as stated: the `current` flag insertEducation sends is the value of
\* the form's own `current` field.
C14_CurrentIsFormField ==
    parsed.schema = "insertEducation" => parsed.payload.current = parsed.values.current

\* C14, amended: the `current` flag insertEducation sends is computed from the
\* end year: it is true exactly when finished_at_year is empty or missing,
\* whatever the form's own `current` field holds.
C14_CurrentDerivedFromEndYear ==
    parsed.schema = "insertEducation" =>
        /\ parsed.payload.current <=> parsed.values.finished_at_year \in {"", undefined}
        /\ parsed.values.finished_at_year = "2020" => ~parsed.payload.current

C14_Witness ==
    /\ parsed.schema = "insertEducation"
    /\ parsed.values.current
    /\ parsed.values.finished_at_year = "2020"
    /\ ~parsed.payload.current

\* C15: when "Create my base resume" is clicked with a dirty ExperienceForm,
\* the entered experience is in the collected experiences list at the
\* transition to 'resume', as it is after "Add another".
C15_EnteredExperienceCollected ==
    (done.form = "ex" /\ done.handler = "submitWithRedirect" /\ done.dirty) =>
        (done.listed /\ done.entry.origin = "form")

\* the order of the onboarding steps, and the position of a step in it
StepOrder == <<"about", "personal-details", "education", "experience", "resume">>

StepIndex(s) == CHOOSE i \in DOMAIN StepOrder : StepOrder[i] = s

\* C16: the steps form one linear flow: whenever the step shown changes, it
\* changes to the next step of the order (a forward transition) or to the step
\* immediately before (a 'previous' link); in particular nothing leads from
\* personal-details to experience or resume except through education.
C16_LinearFlow ==
    [][step' # step =>
          /\ StepIndex(step') - StepIndex(step) \in {1, 0 - 1}
          /\ step = "personal-details" => step' \in {"about", "education"}]_vars

\* the handlers of the mounted EducationForm that wait for their save request
InFlight == {i \in DOMAIN ops : ops[i].form = "ed" /\ ops[i].live}

C18_InvocationsDelayApart ==
    th.invoked => th.gap >= th.delay

\* C19: the last call is never dropped: after a call that has not been
\* followed by an invocation, the callback is eventually invoked; as long as
\* it has not been, a timer carrying the arguments of the most recent call is
\* pending; a pending timer is due no later than `delay` after the previous
\* invocation; and at most one timer is pending at any time.
C19_LastCallNotDropped ==
    /\ th.owed ~> ~th.owed
    /\ [](/\ Cardinality(th.timers) <= 1
          /\ th.owed => \E tm \in th.timers : tm.args = th.lastCall
          /\ \A tm \in th.timers : tm.remaining + th.elapsed <= th.delay)

C19_Witness ==
    /\ th.invoked /\ ~th.owed
    /\ th.timeoutRef # 0 /\ th.timers = {}
    /\ th.lastInvoked = th.lastCall
    /\ th.gap = th.delay /\ th.delay = MaxDelay

\* C20: when no timer is pending, the most recent invocation of the callback
\* was made with the arguments of the most recent call.
C20_LastArgsDelivered ==
    (th.lastCall # NoArgs /\ th.timers = {}) => th.lastInvoked = th.lastCall

\* C21: the Discord POST handler always answers with the message 'Success' or
\* 'Failed' and propagates no exception: 'Failed' when getPosts or the webhook
\* request throws, 'Success' only when the webhook request was made and did
\* not throw; it sends at most one webhook request per invocation, only after
\* getPosts has answered, and none when there is no latest post.
C21_AnswersSuccessOrFailed ==
    /\ ~dc.throws
    /\ dc.pc \in {"idle", "posts", "hook", "responded"}
    /\ dc.hookReq <= 1 /\ dc.postsReq <= 1
    /\ dc.hookReq = 1 <=> dc.posts = "post"
    /\ dc.pc = "posts" => dc.hookReq = 0
    /\ dc.pc = "responded" =>
           /\ dc.message \in {"Success", "Failed"}
           /\ (dc.posts = "throws" \/ dc.hook = "throws") => dc.message = "Failed"
           /\ dc.posts = "empty" => (dc.hookReq = 0 /\ dc.message = "Failed")
           /\ dc.message = "Success" <=>
                  (dc.hookReq = 1 /\ dc.hook \in {"ok", "notok"})

C21_Witness ==
    /\ dc.pc = "responded"
    /\ dc.posts = "post" /\ dc.hook = "throws"
    /\ dc.hookReq = 1
    /\ dc.message = "Failed"

\* C22: signUpForWaitlist orders its side effects: an address the schema
\* rejects causes no waitlist request and no email; while the waitlist request
\* is unanswered no email has been sent; an email is sent only after the
\* endpoint answered with a success status, at most once per call, and to the
\* validated address; none is sent when the answer is not a success or the
\* request throws.
C22_SideEffectsOrdered ==
    /\ wl.posts <= 1 /\ wl.mails <= 1
    /\ (wl.pc # "idle" /\ ~WaitlistMutationSchema_parse(wl.email)) =>
           (wl.posts = 0 /\ wl.mails = 0 /\ wl.pc = "rejected")
    /\ wl.pc = "fetch" => (wl.posts = 1 /\ wl.mails = 0)
    /\ wl.mails = 1 =>
           /\ wl.status = "ok"
           /\ wl.posts = 1
           /\ wl.mailTo = wl.email
           /\ WaitlistMutationSchema_parse(wl.email)
    /\ wl.status \in {"notok", "throws"} => (wl.mails = 0 /\ wl.mailTo = "")
    /\ wl.status = "ok" => wl.mails = 1

C22_Witness ==
    /\ wl.pc = "returned"
    /\ wl.status = "ok"
    /\ wl.posts = 1 /\ wl.mails = 1
    /\ wl.mailTo = wl.email /\ wl.email \in ValidEmails
    /\ wl.result = "entry"

====
